---- MODULE Spec2Model ----
(***************************************************************************)
(* Model of the reporting/aggregation code of the Reports page             *)
(* (src/src/pages/Reports.tsx): duration and date resolution, the entry    *)
(* filter, the by-dimension report, the period summaries and the client    *)
(* summaries, together with the React state they are written to.           *)
(*                                                                         *)
(* Conventions                                                             *)
(*   - an instant (JS Date) is an integer number of seconds since          *)
(*     1970-01-01T00:00:00Z; a calendar day is a day number since          *)
(*     1970-01-01; the host's UTC offset is the variable tz (seconds).     *)
(*   - hour values (Math.round(x * 100) / 100) are integers in hundredths  *)
(*     of an hour, rounded half up as Math.round does.                     *)
(*   - an optional value is <<>> (null, undefined) or <<v>>.               *)
(***************************************************************************)
EXTENDS Integers, Sequences, FiniteSets, TLC

VARIABLES
    timeEntries,            \* useState<TimeEntry[]>            Reports.tsx:97
    filters,                \* useState<ReportFilters>          Reports.tsx:107
    selectedPeriodView,     \* 'week' | 'month' | 'quarter'     Reports.tsx:116
    reportData,             \* useState<ReportData[]>           Reports.tsx:101
    totalHours,             \* Reports.tsx:102 (hundredths)
    totalBillableHours,     \* Reports.tsx:103 (hundredths)
    totalNonBillableHours,  \* Reports.tsx:104 (hundredths)
    periodSummaries,        \* useState<PeriodSummary[]>        Reports.tsx:105
    clientSummaries,        \* useState<ClientSummary[]>        Reports.tsx:106
    now,                    \* the wall clock read by new Date()
    tz,                     \* UTC offset of the host, in seconds
    legacyParse,            \* what new Date('dd MMM') yields on the host
    ticks,                  \* number of clock advances so far
    generatedAt,            \* the clock when the generators last ran (not
                            \* in the source; <<>> before their first run)
    dashboardHighlights,    \* useState<TimeHighlight[]>  Dashboard.tsx (the
                            \* timeHighlights of the Dashboard page)
    entriesHighlights,      \* useState<TimeHighlight[]>  TimeEntries.tsx (the
                            \* timeHighlights of the TimeEntries page)
    rangeArgs,              \* the arguments of a call of isDateInRange
    rangeResult,            \* what that call returned; <<>> before it returns
    store,                  \* the rows of the table time_entries that the
                            \* TimeEntries page reads and updates, by id
    activeTimer,            \* useState<TimeEntry | null>   TimeEntries.tsx:58
    elapsedTime,            \* useState(0), seconds         TimeEntries.tsx:59
    isModalOpen,            \* useState(false)              TimeEntries.tsx:60
    currentTimeEntry,       \* useState<TimeEntry | null>   TimeEntries.tsx:62
    formData,               \* the edit form                TimeEntries.tsx:63
    error                   \* useState<string | null>      TimeEntries.tsx:77

\* the state of the Dashboard and TimeEntries pages and of the range test
\* the table and the editing and timer state of the TimeEntries page
entriesPage == <<store, activeTimer, elapsedTime, isModalOpen, currentTimeEntry,
                 formData, error>>

otherPages == <<dashboardHighlights, entriesHighlights, rangeArgs, rangeResult,
                entriesPage>>

vars == <<timeEntries, filters, selectedPeriodView, reportData, totalHours,
          totalBillableHours, totalNonBillableHours, periodSummaries,
          clientSummaries, now, tz, legacyParse, ticks, generatedAt,
          dashboardHighlights, entriesHighlights, rangeArgs, rangeResult,
          store, activeTimer, elapsedTime, isModalOpen, currentTimeEntry,
          formData, error>>

-----------------------------------------------------------------------------
(* Bounds *)

MaxEntries == 2
MaxTicks == 1

-----------------------------------------------------------------------------
(* Calendar arithmetic of the JS Date object and of date-fns *)

SecondsPerDay == 24 * 60 * 60

\* days since 1970-01-01 of the proleptic Gregorian date y-m-d
DaysFromCivil(y, m, d) ==
    LET yy  == IF m <= 2 THEN y - 1 ELSE y
        era == yy \div 400
        yoe == yy - era * 400
        mp  == IF m > 2 THEN m - 3 ELSE m + 9
        doy == (153 * mp + 2) \div 5 + d - 1
        doe == yoe * 365 + yoe \div 4 - yoe \div 100 + doy
    IN  era * 146097 + doe - 719468

\* the Gregorian date <<y, m, d>> of a day number
CivilFromDays(z) ==
    LET zz  == z + 719468
        era == zz \div 146097
        doe == zz - era * 146097
        yoe == (doe - doe \div 1460 + doe \div 36524 - doe \div 146096) \div 365
        doy == doe - (365 * yoe + yoe \div 4 - yoe \div 100)
        mp  == (5 * doy + 2) \div 153
        d   == doy - (153 * mp + 2) \div 5 + 1
        m   == IF mp < 10 THEN mp + 3 ELSE mp - 9
        y   == yoe + era * 400 + (IF m <= 2 THEN 1 ELSE 0)
    IN  <<y, m, d>>

\* the instant y-m-dThh:mm:ssZ
At(y, m, d, hh, mm, ss) ==
    DaysFromCivil(y, m, d) * SecondsPerDay + hh * 3600 + mm * 60 + ss

\* the host-local calendar day (day number) an instant falls on
LocalDay(t, off) == (t + off) \div SecondsPerDay

\* the instant of host-local midnight of a day number
LocalMidnight(day, off) == day * SecondsPerDay - off

\* new Date('yyyy-MM-dd'): a date-only ISO string is parsed as UTC midnight
NewDateFromDateString(day) == day * SecondsPerDay

\* parseISO('yyyy-MM-dd') of date-fns: a date-only string is local midnight
parseISO(day, off) == LocalMidnight(day, off)

\* format(date, 'yyyy-MM-dd'): the local calendar day, as a day number whose
\* civil form <<yyyy, MM, dd>> is the zero-padded text
format(t, off) == LocalDay(t, off)

\* day of the week of a day number, 0 = Sunday (1970-01-01 was a Thursday)
getDay(day) == (day + 4) % 7

\* startOfWeek(date, { weekStartsOn: 1 }): local midnight of the Monday on or
\* before the date
startOfWeek(t, off) ==
    LET day == LocalDay(t, off)
    IN  LocalMidnight(day - ((getDay(day) + 6) % 7), off)

\* endOfWeek(date, { weekStartsOn: 1 }): the last second of the Sunday on or
\* after the date
endOfWeek(t, off) == startOfWeek(t, off) + 7 * SecondsPerDay - 1

\* differenceInSeconds(later, earlier): the difference truncated toward zero
\* (instants are whole seconds here, so no truncation is left to do)
differenceInSeconds(later, earlier) == later - earlier

\* Math.round(seconds / 3600 * 100): hundredths of an hour, half up
RoundHundredths(seconds) == (seconds + 18) \div 36

-----------------------------------------------------------------------------
(* Optional values: <<>> is null / undefined / '', <<v>> is the value v *)

Null == <<>>
Some(v) == <<v>>
IsSet(x) == x # <<>>
Val(x) == x[1]

-----------------------------------------------------------------------------
(* calculateDuration, Reports.tsx:157-170 *)

\* if (entry.duration_minutes): null and 0 are both falsy
HasDurationMinutes(entry) ==
    IsSet(entry.duration_minutes) /\ Val(entry.duration_minutes) # 0

calculateDuration(entry, clock) ==
    IF HasDurationMinutes(entry)
    THEN Val(entry.duration_minutes) * 60
    ELSE IF IsSet(entry.start_time) /\ IsSet(entry.end_time)
    THEN differenceInSeconds(Val(entry.end_time), Val(entry.start_time))
    ELSE IF IsSet(entry.start_time)
    THEN differenceInSeconds(clock, Val(entry.start_time))
    ELSE 0

-----------------------------------------------------------------------------
(* The date an entry is filtered and bucketed by, Reports.tsx:175-179,     *)
(* 245-249 and 310-314: the same expression at the three places            *)

entryDate(entry, clock) ==
    IF IsSet(entry.date)
    THEN NewDateFromDateString(Val(entry.date))
    ELSE IF IsSet(entry.start_time)
    THEN Val(entry.start_time)
    ELSE clock

-----------------------------------------------------------------------------
(* filterTimeEntries, Reports.tsx:172-212 *)

\* fromDate.setHours(0, 0, 0, 0) on new Date(filters.dateFrom)
fromDate(f, off) ==
    LocalMidnight(LocalDay(NewDateFromDateString(Val(f.dateFrom)), off), off)

\* toDate.setHours(23, 59, 59, 999) on new Date(filters.dateTo); instants are
\* whole seconds, so the 999 ms never decide a comparison
toDate(f, off) ==
    LocalMidnight(LocalDay(NewDateFromDateString(Val(f.dateTo)), off), off)
        + SecondsPerDay - 1

\* keepEntry with the billable test of line 206 lost
keepEntryBillableKept(entry, f, clock, off) ==
    /\ ~ (IsSet(f.dateFrom) /\ entryDate(entry, clock) < fromDate(f, off))
    /\ ~ (IsSet(f.dateTo) /\ entryDate(entry, clock) > toDate(f, off))
    /\ ~ (f.customer # "" /\ entry.customer_id # f.customer)
    /\ ~ (f.project # "")

\* keepEntry with the dateTo test of lines 188-192 lost
keepEntryToIgnored(entry, f, clock, off) ==
    /\ ~ (IsSet(f.dateFrom) /\ entryDate(entry, clock) < fromDate(f, off))
    /\ ~ (f.customer # "" /\ entry.customer_id # f.customer)
    /\ ~ (f.project # "")
    /\ ~ (f.billableOnly /\ ~ entry.billable)

\* keepEntry with the project test of lines 200-203 lost
keepEntryProjectIgnored(entry, f, clock, off) ==
    /\ ~ (IsSet(f.dateFrom) /\ entryDate(entry, clock) < fromDate(f, off))
    /\ ~ (IsSet(f.dateTo) /\ entryDate(entry, clock) > toDate(f, off))
    /\ ~ (f.customer # "" /\ entry.customer_id # f.customer)
    /\ ~ (f.billableOnly /\ ~ entry.billable)

\* the callback of entries.filter, lines 173-211
keepEntry(entry, f, clock, off) ==
    /\ ~ (IsSet(f.dateFrom) /\ entryDate(entry, clock) < fromDate(f, off))
    /\ ~ (IsSet(f.dateTo) /\ entryDate(entry, clock) > toDate(f, off))
    /\ ~ (f.customer # "" /\ entry.customer_id # f.customer)
    /\ ~ (f.project # "")
    /\ ~ (f.billableOnly /\ ~ entry.billable)

RECURSIVE SelectSeqBy(_, _, _, _)
SelectSeqBy(entries, f, clock, off) ==
    IF entries = <<>> THEN <<>>
    ELSE (IF keepEntry(Head(entries), f, clock, off)
          THEN <<Head(entries)>> ELSE <<>>)
         \o SelectSeqBy(Tail(entries), f, clock, off)

filterTimeEntries(entries, f, clock, off) == SelectSeqBy(entries, f, clock, off)

-----------------------------------------------------------------------------
(* Array.prototype.sort with a numeric comparator: a stable sort, ascending *)
(* in the field k of the items                                              *)

RECURSIVE InsertByKey(_, _)
InsertByKey(x, s) ==
    IF s = <<>> THEN <<x>>
    ELSE IF x.k < Head(s).k THEN <<x>> \o s
    ELSE <<Head(s)>> \o InsertByKey(x, Tail(s))

RECURSIVE SortByKey(_)
SortByKey(s) ==
    IF s = <<>> THEN <<>>
    ELSE InsertByKey(s[Len(s)], SortByKey(SubSeq(s, 1, Len(s) - 1)))

RECURSIVE SumSeq(_)
SumSeq(s) == IF s = <<>> THEN 0 ELSE Head(s) + SumSeq(Tail(s))

-----------------------------------------------------------------------------
(* generateReport, Reports.tsx:214-300 *)

\* the switch on filters.groupBy, lines 233-252; the day key is the text
\* 'yyyy-MM-dd', held as the day number it denotes
groupKey(entry, f, clock, off) ==
    CASE f.groupBy = "customer" ->
            IF IsSet(entry.customer) /\ Val(entry.customer).name # ""
            THEN Val(entry.customer).name ELSE "Unknown Customer"
      [] f.groupBy = "project" -> "Unknown Project"
      [] f.groupBy = "task" ->
            IF IsSet(entry.task) /\ Val(entry.task).name # ""
            THEN Val(entry.task).name ELSE "Unknown Task"
      [] f.groupBy = "day" -> format(entryDate(entry, clock), off)

\* addToGroup with the else of line 263 lost: every duration is also added
\* to the non-billable sum
addToGroupElseLost(groups, key, duration, billable) ==
    LET grown == IF \E i \in 1..Len(groups) : groups[i].key = key
                 THEN groups
                 ELSE Append(groups, [key |-> key, total |-> 0,
                                      billable |-> 0, nonBillable |-> 0])
        i == CHOOSE j \in 1..Len(grown) : grown[j].key = key
    IN  [grown EXCEPT ![i] =
            [key |-> key,
             total |-> @.total + duration,
             billable |-> @.billable + (IF billable THEN duration ELSE 0),
             nonBillable |-> @.nonBillable + duration]]

\* addToGroup that only creates the record of a new key (lines 254-256) and
\* adds nothing to it for the entry that created it
addToGroupFirstDropped(groups, key, duration, billable) ==
    IF \E i \in 1..Len(groups) : groups[i].key = key
    THEN LET i == CHOOSE j \in 1..Len(groups) : groups[j].key = key
         IN  [groups EXCEPT ![i] =
                [key |-> key,
                 total |-> @.total + duration,
                 billable |-> @.billable + (IF billable THEN duration ELSE 0),
                 nonBillable |-> @.nonBillable + (IF billable THEN 0 ELSE duration)]]
    ELSE Append(groups, [key |-> key, total |-> 0,
                         billable |-> 0, nonBillable |-> 0])

\* lines 254-266: one step of the forEach on the groupedData accumulator,
\* kept as a sequence in insertion order (the order Object.entries lists)
addToGroup(groups, key, duration, billable) ==
    LET grown == IF \E i \in 1..Len(groups) : groups[i].key = key
                 THEN groups
                 ELSE Append(groups, [key |-> key, total |-> 0,
                                      billable |-> 0, nonBillable |-> 0])
        i == CHOOSE j \in 1..Len(grown) : grown[j].key = key
    IN  [grown EXCEPT ![i] =
            [key |-> key,
             total |-> @.total + duration,
             billable |-> @.billable + (IF billable THEN duration ELSE 0),
             nonBillable |-> @.nonBillable + (IF billable THEN 0 ELSE duration)]]

RECURSIVE groupEntries(_, _, _, _, _)
groupEntries(entries, f, clock, off, groups) ==
    IF entries = <<>> THEN groups
    ELSE groupEntries(Tail(entries), f, clock, off,
            addToGroup(groups, groupKey(Head(entries), f, clock, off),
                       calculateDuration(Head(entries), clock),
                       Head(entries).billable))

\* formatDate(parseISO(name), 'dd MMM'): the label <<dd, MMM>> of a day key
dayLabel(key, off) ==
    LET c == CivilFromDays(LocalDay(parseISO(key, off), off))
    IN  <<c[3], c[2]>>

\* lines 272-278; three fields are not in the source, and are there so that
\* properties can speak of them: day is the day a row of the day report
\* stands for, billableSeconds and nonBillableSeconds are the sums that the
\* source keeps only as rounded hours
reportRow(g, f, off) ==
    [name |-> IF f.groupBy = "day" THEN dayLabel(g.key, off) ELSE <<g.key>>,
     value |-> RoundHundredths(g.total),
     seconds |-> g.total,
     billableHours |-> RoundHundredths(g.billable),
     nonBillableHours |-> RoundHundredths(g.nonBillable),
     day |-> IF f.groupBy = "day" THEN Some(g.key) ELSE Null,
     billableSeconds |-> g.billable,
     nonBillableSeconds |-> g.nonBillable]

\* new Date(a.name).getTime() for a label 'dd MMM', lines 283-285: the text
\* is not an ISO date, so the result is up to the host's legacy parser;
\* "year2001" hosts read it as that day of the year 2001, "invalid" hosts
\* give Invalid Date, whose NaN makes the comparator return NaN, which sort
\* treats as 0
labelTime(name, off, parse) ==
    IF parse = "year2001"
    THEN LocalMidnight(DaysFromCivil(2001, name[2], name[1]), off)
    ELSE 0

\* rowSortKey with the two operands of line 288 exchanged: ascending in the
\* seconds
rowSortKeyAscending(row, f, off, parse) ==
    IF f.groupBy = "day" THEN labelTime(row.name, off, parse)
    ELSE row.seconds

\* lines 281-289
rowSortKey(row, f, off, parse) ==
    IF f.groupBy = "day" THEN labelTime(row.name, off, parse)
    ELSE 0 - row.seconds

sortRows(rows, f, off, parse) ==
    LET keyed == [i \in 1..Len(rows) |->
                    [k |-> rowSortKey(rows[i], f, off, parse), r |-> rows[i]]]
        sorted == SortByKey(keyed)
    IN  [i \in 1..Len(rows) |-> sorted[i].r]

generateReport(entries, f, clock, off, parse) ==
    LET filteredEntries == filterTimeEntries(entries, f, clock, off)
        groupedData == groupEntries(filteredEntries, f, clock, off, <<>>)
        data == [i \in 1..Len(groupedData) |-> reportRow(groupedData[i], f, off)]
        durations == [i \in 1..Len(filteredEntries) |->
                        calculateDuration(filteredEntries[i], clock)]
        billableDurations == [i \in 1..Len(filteredEntries) |->
                        IF filteredEntries[i].billable THEN durations[i] ELSE 0]
        totalSeconds == SumSeq(durations)
        totalBillableSeconds == SumSeq(billableDurations)
        totalNonBillableSeconds == totalSeconds - totalBillableSeconds
    IN  [reportData |-> sortRows(data, f, off, parse),
         totalHours |-> RoundHundredths(totalSeconds),
         totalBillableHours |-> RoundHundredths(totalBillableSeconds),
         totalNonBillableHours |-> RoundHundredths(totalNonBillableSeconds)]

-----------------------------------------------------------------------------
(* generatePeriodSummaries, Reports.tsx:302-376 *)

\* lines 316-330: the period key of an instant; 'yyyy-MM-dd' of the week's
\* Monday, 'yyyy-MM', or 'yyyy-Qn', held as the numbers the text is made of
periodKey(t, view, off) ==
    LET c == CivilFromDays(LocalDay(t, off))
    IN  CASE view = "week" -> <<format(startOfWeek(t, off), off)>>
          [] view = "month" -> <<c[1], c[2]>>
          [] view = "quarter" -> <<c[1], ((c[2] - 1) \div 3) + 1>>

\* lines 332-335: the periodGroups accumulator, in insertion order
addToPeriod(groups, key, entry) ==
    LET grown == IF \E i \in 1..Len(groups) : groups[i].key = key
                 THEN groups
                 ELSE Append(groups, [key |-> key, entries |-> <<>>])
        i == CHOOSE j \in 1..Len(grown) : grown[j].key = key
    IN  [grown EXCEPT ![i] = [key |-> key, entries |-> Append(@.entries, entry)]]

RECURSIVE groupPeriods(_, _, _, _, _)
groupPeriods(entries, view, clock, off, groups) ==
    IF entries = <<>> THEN groups
    ELSE groupPeriods(Tail(entries), view, clock, off,
            addToPeriod(groups,
                        periodKey(entryDate(Head(entries), clock), view, off),
                        Head(entries)))

\* lines 360-364: the displayed label of a period key;
\*   week     `Week of ${formatDate(parseISO(period))}`  'dd/MM-yyyy'
\*   month    formatMonthYear(parseISO(period + '-01'))  'MMM yyyy'
\*   quarter  the key itself                             'yyyy-Qn'
\* held as the sequence of the numbers that vary in the text
periodLabel(key, view, off) ==
    CASE view = "week" ->
            LET c == CivilFromDays(LocalDay(parseISO(key[1], off), off))
            IN  <<c[3], c[2], c[1]>>
      [] view = "month" ->
            LET c == CivilFromDays(LocalDay(
                        parseISO(DaysFromCivil(key[1], key[2], 1), off), off))
            IN  <<c[2], c[1]>>
      [] view = "quarter" -> key

\* the place of the Danish abbreviated month names of date-fns (jan., feb.,
\* mar., apr., maj, jun., jul., aug., sep., okt., nov., dec.) in alphabetical
\* order, which is how localeCompare orders the texts
monthNameRank(m) ==
    CASE m = 4 -> 1 [] m = 8 -> 2 [] m = 12 -> 3 [] m = 2 -> 4
      [] m = 1 -> 5 [] m = 7 -> 6 [] m = 6 -> 7 [] m = 5 -> 8
      [] m = 3 -> 9 [] m = 11 -> 10 [] m = 10 -> 11 [] m = 9 -> 12

\* a.period.localeCompare(b.period), line 373, as a number that orders the
\* labels of one view the way the text comparison does: character by
\* character, all numbers zero-padded to a fixed width
labelCollation(label, view) ==
    CASE view = "week" -> label[1] * 1000000 + label[2] * 10000 + label[3]
      [] view = "month" -> monthNameRank(label[1]) * 10000 + label[2]
      [] view = "quarter" -> label[1] * 10 + label[2]

\* the chronological position of a period key (not in the source)
periodOrdinal(key, view) ==
    CASE view = "week" -> key[1]
      [] view = "month" -> key[1] * 12 + key[2]
      [] view = "quarter" -> key[1] * 4 + key[2]

\* Math.round((billableHours / totalHours) * 100) for totalHours > 0
RoundPercent(part, whole) == (200 * part + whole) \div (2 * whole)

\* lines 339-370; the field ordinal is not in the source: it records the
\* chronological position of the period the summary stands for
periodSummary(g, view, clock, off) ==
    LET durations == [i \in 1..Len(g.entries) |->
                        calculateDuration(g.entries[i], clock)]
        billableDurations == [i \in 1..Len(g.entries) |->
                        IF g.entries[i].billable THEN durations[i] ELSE 0]
        totalSeconds == SumSeq(durations)
        billableSeconds == SumSeq(billableDurations)
        nonBillableSeconds == totalSeconds - billableSeconds
    IN  [period |-> periodLabel(g.key, view, off),
         totalHours |-> RoundHundredths(totalSeconds),
         billableHours |-> RoundHundredths(billableSeconds),
         nonBillableHours |-> RoundHundredths(nonBillableSeconds),
         billablePercentage |-> IF totalSeconds > 0
                                THEN RoundPercent(billableSeconds, totalSeconds)
                                ELSE 0,
         ordinal |-> periodOrdinal(g.key, view)]

sortSummaries(summaries, view) ==
    LET keyed == [i \in 1..Len(summaries) |->
                    [k |-> labelCollation(summaries[i].period, view),
                     r |-> summaries[i]]]
        sorted == SortByKey(keyed)
    IN  [i \in 1..Len(summaries) |-> sorted[i].r]

generatePeriodSummaries(entries, f, view, clock, off) ==
    LET filteredEntries == filterTimeEntries(entries, f, clock, off)
        periodGroups == groupPeriods(filteredEntries, view, clock, off, <<>>)
        summaries == [i \in 1..Len(periodGroups) |->
                        periodSummary(periodGroups[i], view, clock, off)]
    IN  sortSummaries(summaries, view)

-----------------------------------------------------------------------------
(* generateClientSummaries, Reports.tsx:378-493 *)

\* lines 401-414: the clientGroups accumulator, in insertion order
addToClient(groups, entry) ==
    IF IsSet(entry.customer) /\ entry.customer_id # ""
    THEN LET customer == Val(entry.customer)
             grown == IF \E i \in 1..Len(groups) : groups[i].id = customer.id
                      THEN groups
                      ELSE Append(groups, [id |-> customer.id,
                                           customer |-> customer,
                                           entries |-> <<>>])
             i == CHOOSE j \in 1..Len(grown) : grown[j].id = customer.id
         IN  [grown EXCEPT ![i].entries = Append(@, entry)]
    ELSE groups

RECURSIVE groupClients(_, _)
groupClients(entries, groups) ==
    IF entries = <<>> THEN groups
    ELSE groupClients(Tail(entries), addToClient(groups, Head(entries)))

\* clientSummary with the hours of each entry rounded to two decimals before
\* they are multiplied by the rate
clientSummaryHoursRounded(g, clock) ==
    LET durations == [i \in 1..Len(g.entries) |->
                        calculateDuration(g.entries[i], clock)]
        billableDurations == [i \in 1..Len(g.entries) |->
                        IF g.entries[i].billable THEN durations[i] ELSE 0]
        amounts == [i \in 1..Len(g.entries) |->
                        IF /\ g.entries[i].billable
                           /\ IsSet(g.entries[i].rate)
                           /\ Val(g.entries[i].rate) > 0
                        THEN RoundHundredths(durations[i]) * Val(g.entries[i].rate)
                        ELSE 0]
        totalSeconds == SumSeq(durations)
        billableSeconds == SumSeq(billableDurations)
        nonBillableSeconds == totalSeconds - billableSeconds
    IN  [clientId |-> g.id,
         clientName |-> g.customer.name,
         totalHours |-> RoundHundredths(totalSeconds),
         billableHours |-> RoundHundredths(billableSeconds),
         nonBillableHours |-> RoundHundredths(nonBillableSeconds),
         billableAmount |-> SumSeq(amounts)]

\* lines 447-482; amounts are in hundredths of the currency unit
clientSummary(g, clock) ==
    LET durations == [i \in 1..Len(g.entries) |->
                        calculateDuration(g.entries[i], clock)]
        billableDurations == [i \in 1..Len(g.entries) |->
                        IF g.entries[i].billable THEN durations[i] ELSE 0]
        amounts == [i \in 1..Len(g.entries) |->
                        IF /\ g.entries[i].billable
                           /\ IsSet(g.entries[i].rate)
                           /\ Val(g.entries[i].rate) > 0
                        THEN durations[i] * Val(g.entries[i].rate) ELSE 0]
        totalSeconds == SumSeq(durations)
        billableSeconds == SumSeq(billableDurations)
        nonBillableSeconds == totalSeconds - billableSeconds
    IN  [clientId |-> g.id,
         clientName |-> g.customer.name,
         totalHours |-> RoundHundredths(totalSeconds),
         billableHours |-> RoundHundredths(billableSeconds),
         nonBillableHours |-> RoundHundredths(nonBillableSeconds),
         billableAmount |-> RoundHundredths(SumSeq(amounts))]

\* nonZeroSummaries without the filter of line 485
nonZeroSummariesAll(summaries) == summaries

\* lines 484-488
nonZeroSummaries(summaries) == SelectSeq(summaries, LAMBDA s : s.totalHours > 0)

sortClients(summaries) ==
    LET keyed == [i \in 1..Len(summaries) |->
                    [k |-> 0 - summaries[i].totalHours, r |-> summaries[i]]]
        sorted == SortByKey(keyed)
    IN  [i \in 1..Len(summaries) |-> sorted[i].r]

generateClientSummaries(entries, clock) ==
    LET allEntries == entries
        clientGroups == groupClients(allEntries, <<>>)
        summaries == [i \in 1..Len(clientGroups) |->
                        clientSummary(clientGroups[i], clock)]
    IN  sortClients(nonZeroSummaries(summaries))

-----------------------------------------------------------------------------
(* What the Reports page derives from its state when it renders *)

\* a JS number that may fail to be finite: kind is "number", "NaN" or
\* "Infinity" (of either sign); v is the value of a number, 0 otherwise
Number(v) == [kind |-> "number", v |-> v]
NaN == [kind |-> "NaN", v |-> 0]
Infinity == [kind |-> "Infinity", v |-> 0]

\* Reports.tsx:1131, from the rounded totals of the state (hundredths)
billablePercentage ==
    IF totalHours > 0 THEN RoundPercent(totalBillableHours, totalHours)
    ELSE 0

\* ((item.value / totalHours) * 100).toFixed(1), Reports.tsx:830, 913 and
\* 1706: the share of a row in tenths of a percent; a division by 0 gives
\* NaN for 0 / 0 and an infinity otherwise, printed as 'NaN%', 'Infinity%'
sharePercentage(item, total) ==
    IF total = 0
    THEN (IF item.value = 0 THEN NaN ELSE Infinity)
    ELSE Number(IF total > 0
                THEN (2000 * item.value + total) \div (2 * total)
                ELSE (2000 * (0 - item.value) + (0 - total)) \div (2 * (0 - total)))

-----------------------------------------------------------------------------
(* The time highlights of the Dashboard (Dashboard.tsx:89-201) and of the   *)
(* TimeEntries page (TimeEntries.tsx:196-288)                               *)

\* date-fns, on instants
isAfter(date, other) == date > other
isBefore(date, other) == date < other
isEqual(date, other) == date = other

\* startOfDay(date): local midnight of the date's day
startOfDay(t, off) == LocalMidnight(LocalDay(t, off), off)

\* startOfMonth(date) and endOfMonth(date): local midnight of the first day,
\* and the last second of the last day, of the date's month
startOfMonth(t, off) ==
    LET c == CivilFromDays(LocalDay(t, off))
    IN  LocalMidnight(DaysFromCivil(c[1], c[2], 1), off)

endOfMonth(t, off) ==
    LET c == CivilFromDays(LocalDay(t, off))
        firstOfNext == IF c[2] = 12 THEN DaysFromCivil(c[1] + 1, 1, 1)
                       ELSE DaysFromCivil(c[1], c[2] + 1, 1)
    IN  LocalMidnight(firstOfNext, off) - 1

\* subMonths(date, 1): the same local time one month earlier, on the last
\* day of that month when it has no such day
subMonths(t, off) ==
    LET day == LocalDay(t, off)
        c == CivilFromDays(day)
        firstOfThis == DaysFromCivil(c[1], c[2], 1)
        firstOfLast == IF c[2] = 1 THEN DaysFromCivil(c[1] - 1, 12, 1)
                       ELSE DaysFromCivil(c[1], c[2] - 1, 1)
        lengthOfLast == firstOfThis - firstOfLast
        d == IF c[3] > lengthOfLast THEN lengthOfLast ELSE c[3]
    IN  t - (day - (firstOfLast + d - 1)) * SecondsPerDay

\* getEntryDate, Dashboard.tsx:110-124 and TimeEntries.tsx:206-220; every
\* row of the store has a created_at, so the result is never null here
getEntryDate(entry, off) ==
    IF IsSet(entry.date) THEN Some(parseISO(Val(entry.date), off))
    ELSE IF IsSet(entry.start_time) THEN Some(Val(entry.start_time))
    ELSE Some(entry.created_at)

\* isDateInRange with the upper end exclusive: isEqual(date, end) lost
isDateInRangeEndExcluded(date, start, end) ==
    IF ~ IsSet(date) THEN FALSE
    ELSE IF IsSet(end)
    THEN /\ (isAfter(Val(date), start) \/ isEqual(Val(date), start))
         /\ isBefore(Val(date), Val(end))
    ELSE isAfter(Val(date), start) \/ isEqual(Val(date), start)

\* isDateInRange, Dashboard.tsx:126-136 and TimeEntries.tsx:222-232; date is
\* null or a Date, end is omitted (<<>>) or a Date
isDateInRange(date, start, end) ==
    IF ~ IsSet(date) THEN FALSE
    ELSE IF IsSet(end)
    THEN /\ (isAfter(Val(date), start) \/ isEqual(Val(date), start))
         /\ (isBefore(Val(date), Val(end)) \/ isEqual(Val(date), Val(end)))
    ELSE isAfter(Val(date), start) \/ isEqual(Val(date), start)

\* entries.filter(entry => isDateInRange(getEntryDate(entry), start, end))
entriesInRange(entries, start, end, off) ==
    SelectSeq(entries, LAMBDA e : isDateInRange(getEntryDate(e, off), start, end))

\* the minutes one entry adds in calculateTotalHours, Dashboard.tsx:165-198
\* and TimeEntries.tsx:258-284 (no row of the store has the field duration
\* that Dashboard.tsx:176 also reads): duration_minutes when it is not null,
\* else the whole minutes from start_time to end_time when positive
entryMinutes(entry) ==
    IF IsSet(entry.duration_minutes) THEN Val(entry.duration_minutes)
    ELSE IF IsSet(entry.start_time) /\ IsSet(entry.end_time)
    THEN LET diffMinutes == (Val(entry.end_time) - Val(entry.start_time)) \div 60
         IN  IF diffMinutes > 0 THEN diffMinutes ELSE 0
    ELSE 0

\* calculateTotalHours: Math.round((totalMinutes / 60) * 10) / 10, in tenths
\* of an hour
calculateTotalHours(entries) ==
    LET totalMinutes == SumSeq([i \in 1..Len(entries) |-> entryMinutes(entries[i])])
    IN  (totalMinutes + 3) \div 6

\* one element of timeHighlights; entries is the list the hours are summed
\* over (todayEntries, thisWeekEntries, ...), which the source does not keep
TimeHighlight(period, entries) ==
    [period |-> period, hours |-> calculateTotalHours(entries), entries |-> entries]

\* Dashboard.tsx:89-96, 139-157 and 201-234
dashboardTimeHighlights(allTimeEntries, clock, off) ==
    LET today == startOfDay(clock, off)
        thisWeekStart == startOfWeek(clock, off)
        thisWeekEnd == endOfWeek(clock, off)
        thisMonthStart == startOfMonth(clock, off)
        thisMonthEnd == endOfMonth(clock, off)
        lastMonthStart == startOfMonth(subMonths(clock, off), off)
        lastMonthEnd == endOfMonth(subMonths(clock, off), off)
    IN  << TimeHighlight("Today",
                entriesInRange(allTimeEntries, today, Null, off)),
           TimeHighlight("This Week",
                entriesInRange(allTimeEntries, thisWeekStart, Some(thisWeekEnd), off)),
           TimeHighlight("This Month",
                entriesInRange(allTimeEntries, thisMonthStart, Some(thisMonthEnd), off)),
           TimeHighlight("Last Month",
                entriesInRange(allTimeEntries, lastMonthStart, Some(lastMonthEnd), off)) >>

\* calculateTimeHighlights, TimeEntries.tsx:196-320
calculateTimeHighlights(entries, clock, off) ==
    LET today == startOfDay(clock, off)
        thisWeekStart == startOfWeek(clock, off)
        thisMonthStart == startOfMonth(clock, off)
        thisMonthEnd == endOfMonth(clock, off)
        lastMonthStart == startOfMonth(subMonths(clock, off), off)
        lastMonthEnd == endOfMonth(subMonths(clock, off), off)
    IN  << TimeHighlight("Today",
                entriesInRange(entries, today, Null, off)),
           TimeHighlight("This Week",
                entriesInRange(entries, thisWeekStart, Null, off)),
           TimeHighlight("This Month",
                entriesInRange(entries, thisMonthStart, Some(thisMonthEnd), off)),
           TimeHighlight("Last Month",
                entriesInRange(entries, lastMonthStart, Some(lastMonthEnd), off)) >>

-----------------------------------------------------------------------------
(* The records of the store the page can be given *)

Acme == [id |-> "c-acme", name |-> "Acme"]
Bolt == [id |-> "c-bolt", name |-> "Bolt"]
Design == [id |-> "t-design", name |-> "Design"]

\* time_entries rows as the select of fetchTimeEntries returns them
\* (Reports.tsx:37-50, 514-522), created_at included
TimeEntry(id, customer, start, end, minutes, date, billable, rate, created) ==
    [id |-> id,
     customer_id |-> IF IsSet(customer) THEN Val(customer).id ELSE "",
     customer |-> customer,
     task |-> Some(Design),
     start_time |-> start,
     end_time |-> end,
     duration_minutes |-> minutes,
     date |-> date,
     billable |-> billable,
     rate |-> rate,
     created_at |-> created]

Entries ==
    { \* e1: an explicit duration on a declared work date, with a rate
      TimeEntry("e1", Some(Acme), Null, Null, Some(90),
                Some(DaysFromCivil(2024, 1, 1)), TRUE, Some(500),
                At(2024, 1, 1, 18, 0, 0)),
      \* e2: a closed timer, not billable, dated by its start
      TimeEntry("e2", Some(Acme), Some(At(2024, 1, 1, 9, 0, 0)),
                Some(At(2024, 1, 1, 10, 30, 0)), Null, Null, FALSE, Null,
                At(2024, 1, 1, 9, 0, 0)),
      \* e3: duration_minutes = 0 together with timestamps one hour apart
      TimeEntry("e3", Some(Bolt), Some(At(2023, 12, 31, 10, 0, 0)),
                Some(At(2023, 12, 31, 11, 0, 0)), Some(0),
                Some(DaysFromCivil(2023, 12, 31)), TRUE, Null,
                At(2023, 12, 31, 10, 0, 0)),
      \* e4: end_time one hour before start_time
      TimeEntry("e4", Some(Bolt), Some(At(2024, 2, 5, 10, 0, 0)),
                Some(At(2024, 2, 5, 9, 0, 0)), Null, Null, FALSE, Null,
                At(2024, 2, 5, 10, 0, 0)),
      \* e5: a running timer
      TimeEntry("e5", Some(Acme), Some(At(2024, 2, 6, 8, 0, 0)), Null, Null,
                Null, TRUE, Some(400), At(2024, 2, 6, 8, 0, 0)),
      \* e6: neither date nor start_time, and no customer
      TimeEntry("e6", Null, Null, Null, Some(50), Null, TRUE, Null,
                At(2023, 12, 31, 12, 0, 0)),
      \* e7: the same day and month as e3, one year later
      TimeEntry("e7", Some(Bolt), Null, Null, Some(20),
                Some(DaysFromCivil(2024, 12, 31)), FALSE, Null,
                At(2024, 2, 1, 12, 0, 0)) }

\* .order('start_time', { ascending: false }), Reports.tsx:522: descending,
\* rows without start_time first (the store's order of nulls when descending)
StartOrder(a, b) ==
    \/ ~ IsSet(a.start_time)
    \/ IsSet(b.start_time) /\ Val(a.start_time) >= Val(b.start_time)

\* what a fetch can return while the store holds entries: up to MaxEntries
\* rows with distinct ids, in the order of the query
FetchResults ==
    { s \in UNION { [1..n -> Entries] : n \in 1..MaxEntries } :
        \A i, j \in DOMAIN s :
            i < j => s[i].id # s[j].id /\ StartOrder(s[i], s[j]) }

\* the clock when the page is mounted, and how far one tick moves it
MountTime == At(2024, 2, 6, 12, 0, 0)
TickSeconds == 30 * 60

\* e9: 0 minutes, and no timestamps
ZeroEntry ==
    TimeEntry("e9", Some(Bolt), Null, Null, Some(0),
              Some(DaysFromCivil(2024, 1, 1)), TRUE, Some(500),
              At(2024, 1, 1, 17, 0, 0))

\* rows for the date and billable filters: the two entries of 2024-01-01
\* and the entry of 2023-12-31 from above, and the entry of 0 minutes
FilterEntries ==
    { e \in Entries : e.id \in {"e1", "e2", "e3"} } \cup { ZeroEntry }

FilterFetchResults ==
    { s \in UNION { [1..n -> FilterEntries] : n \in 1..MaxEntries } :
        \A i, j \in DOMAIN s :
            i < j => s[i].id # s[j].id /\ StartOrder(s[i], s[j]) }

\* rows for the client summaries: a billable entry with a rate, a
\* non-billable entry and a running timer with a rate from above, the entry
\* of 0 minutes, and
\*   e8: billable, 50 minutes at a rate of 500
\*   e10: billable, with a rate of 0
\*   e11: not billable, with a rate
ClientEntries ==
    { e \in Entries : e.id \in {"e1", "e2", "e5"} }
    \cup
    { ZeroEntry,
      TimeEntry("e8", Some(Acme), Null, Null, Some(50),
                Some(DaysFromCivil(2023, 12, 31)), TRUE, Some(500),
                At(2023, 12, 31, 17, 0, 0)),
      TimeEntry("e10", Some(Acme), Null, Null, Some(30),
                Some(DaysFromCivil(2024, 1, 2)), TRUE, Some(0),
                At(2024, 1, 2, 17, 0, 0)),
      TimeEntry("e11", Some(Bolt), Null, Null, Some(60),
                Some(DaysFromCivil(2024, 1, 2)), FALSE, Some(300),
                At(2024, 1, 2, 18, 0, 0)) }

ClientFetchResults ==
    { s \in UNION { [1..n -> ClientEntries] : n \in 1..MaxEntries } :
        \A i, j \in DOMAIN s :
            i < j => s[i].id # s[j].id /\ StartOrder(s[i], s[j]) }

\* rows around the week of Monday 2024-02-05 to Sunday 2024-02-11
HighlightEntries ==
    { \* the Monday of the week
      TimeEntry("w1", Some(Acme), Null, Null, Some(60),
                Some(DaysFromCivil(2024, 2, 5)), TRUE, Null,
                At(2024, 2, 5, 16, 0, 0)),
      \* a closed timer late on the Sunday of the week
      TimeEntry("w2", Some(Acme), Some(At(2024, 2, 11, 21, 0, 0)),
                Some(At(2024, 2, 11, 22, 0, 0)), Null, Null, TRUE, Null,
                At(2024, 2, 11, 21, 0, 0)),
      \* the Monday after the week, entered ahead
      TimeEntry("w3", Some(Bolt), Null, Null, Some(45),
                Some(DaysFromCivil(2024, 2, 12)), TRUE, Null,
                At(2024, 2, 5, 17, 0, 0)),
      \* the Sunday before the week
      TimeEntry("w4", Some(Bolt), Null, Null, Some(30),
                Some(DaysFromCivil(2024, 2, 4)), FALSE, Null,
                At(2024, 2, 4, 16, 0, 0)),
      \* the Thursday of the week
      TimeEntry("w5", Some(Acme), Null, Null, Some(120),
                Some(DaysFromCivil(2024, 2, 8)), TRUE, Null,
                At(2024, 2, 8, 16, 0, 0)) }

\* .select('*') without an order, Dashboard.tsx:77-80: up to MaxEntries rows
\* with distinct ids, in any order
DashboardFetchResults ==
    { s \in UNION { [1..n -> HighlightEntries] : n \in 0..MaxEntries } :
        \A i, j \in DOMAIN s : i < j => s[i].id # s[j].id }

\* .order('created_at', { ascending: false }), TimeEntries.tsx:156-175
TimeEntriesFetchResults ==
    { s \in DashboardFetchResults :
        \A i, j \in DOMAIN s : i < j => s[i].created_at >= s[j].created_at }

\* the Dates isDateInRange is called with: the week's Monday at local
\* midnight, its Sunday's last second, and an instant before, between and
\* after them
RangeDates(off) ==
    LET start == startOfWeek(MountTime, off)
        end == endOfWeek(MountTime, off)
    IN  { start - 1, start, MountTime, end, end + 1 }

\* hosts: UTC-5 and UTC+1
HostOffsets == { 0 - 5 * 3600, 3600 }
HostParsers == { "year2001", "invalid" }

\* the values a user enters in the filter form (Reports.tsx:694-702)
FilterDates ==
    { Null, Some(DaysFromCivil(2023, 12, 31)), Some(DaysFromCivil(2024, 1, 1)) }
FilterCustomers == { "", Acme.id }
FilterProjects == { "", "p-site" }
GroupBys == { "customer", "project", "task", "day" }
PeriodViews == { "week", "month", "quarter" }

FilterValues(name) ==
    CASE name = "dateFrom" -> FilterDates
      [] name = "dateTo" -> FilterDates
      [] name = "customer" -> FilterCustomers
      [] name = "project" -> FilterProjects
      [] name = "groupBy" -> GroupBys
      [] name = "billableOnly" -> BOOLEAN

FilterNames ==
    { "dateFrom", "dateTo", "customer", "project", "groupBy", "billableOnly" }

-----------------------------------------------------------------------------
(* The edit form and the table of the TimeEntries page *)

\* the text of a form field that holds an integer: '' has no digits
EmptyText == [negative |-> FALSE, digits |-> <<>>]

RECURSIVE Digits(_)
Digits(n) == IF n < 10 THEN <<n>> ELSE Digits(n \div 10) \o <<n % 10>>

\* Number.prototype.toString of an integer
toString(n) ==
    IF n < 0 THEN [negative |-> TRUE, digits |-> Digits(0 - n)]
    ELSE [negative |-> FALSE, digits |-> Digits(n)]

RECURSIVE FromDigits(_)
FromDigits(digits) ==
    IF digits = <<>> THEN 0
    ELSE 10 * FromDigits(SubSeq(digits, 1, Len(digits) - 1)) + digits[Len(digits)]

\* parseInt(text) || 0, TimeEntries.tsx:535-536: NaN for '' and 0 both give 0
parseIntOrZero(text) ==
    IF text.negative THEN 0 - FromDigits(text.digits) ELSE FromDigits(text.digits)

\* a % b of JavaScript: the sign of the result is the sign of a
Remainder(a, b) == IF a < 0 THEN 0 - ((0 - a) % b) ELSE a % b

\* useState initial value of formData, TimeEntries.tsx:63-74
EmptyForm ==
    [task_id |-> "", project_id |-> "", customer_id |-> "", date |-> Null,
     duration_hours |-> EmptyText, duration_minutes |-> EmptyText,
     billable |-> TRUE, rate |-> EmptyText]

\* a row of time_entries as the TimeEntries page selects it
\* (TimeEntries.tsx:24-41): the fields above and task_id and project_id;
\* a project_id of null is held as ""
StoredEntry(entry, project_id) ==
    entry @@ [task_id |-> Design.id, project_id |-> project_id]

\* the timer of the table was started 40 minutes before the page is mounted
TimerStart == MountTime - 40 * 60

\* the table of the TimeEntries page:
\*   s1: 135 minutes, with a project
\*   s2: 0 minutes, with a project
\*   s3: 45 minutes, without a project
\*   s4: a running timer
StoredEntries ==
    LET rows ==
          { StoredEntry(TimeEntry("s1", Some(Acme), Null, Null, Some(135),
                                  Some(DaysFromCivil(2024, 2, 5)), TRUE,
                                  Some(500), At(2024, 2, 5, 17, 0, 0)),
                        "p-site"),
            StoredEntry(TimeEntry("s2", Some(Acme), Null, Null, Some(0),
                                  Some(DaysFromCivil(2024, 2, 5)), TRUE, Null,
                                  At(2024, 2, 5, 18, 0, 0)),
                        "p-site"),
            StoredEntry(TimeEntry("s3", Some(Bolt), Null, Null, Some(45),
                                  Some(DaysFromCivil(2024, 2, 6)), FALSE, Null,
                                  At(2024, 2, 6, 9, 0, 0)),
                        ""),
            StoredEntry(TimeEntry("s4", Some(Bolt), Some(TimerStart), Null,
                                  Null, Null, TRUE, Null, TimerStart),
                        "p-site") }
    IN  [id \in { r.id : r \in rows } |-> CHOOSE r \in rows : r.id = id]

-----------------------------------------------------------------------------
(* The page *)

\* useState initial values of the Dashboard (Dashboard.tsx:47, no highlight
\* yet) and of the TimeEntries page (TimeEntries.tsx:53-93: four highlights
\* of 0 hours, no timer, the modal closed, the form empty); fetched is the entry list the highlights were
\* computed from, the timeEntries of the TimeEntries page
NoHighlights == [fetched |-> <<>>, highlights |-> <<>>]

ZeroHighlights ==
    [fetched |-> <<>>,
     highlights |-> << TimeHighlight("Today", <<>>),
                       TimeHighlight("This Week", <<>>),
                       TimeHighlight("This Month", <<>>),
                       TimeHighlight("Last Month", <<>>) >>]

\* no call of isDateInRange is under way
NoRangeArgs == [date |-> Null, start |-> 0, end |-> Null]

OtherPagesInit ==
    /\ dashboardHighlights = NoHighlights
    /\ entriesHighlights = ZeroHighlights
    /\ rangeArgs = NoRangeArgs
    /\ rangeResult = Null
    /\ store = StoredEntries
    /\ activeTimer = Null
    /\ elapsedTime = 0
    /\ isModalOpen = FALSE
    /\ currentTimeEntry = Null
    /\ formData = EmptyForm
    /\ error = Null

\* useState initial values, Reports.tsx:97-116
Init ==
    /\ now = MountTime
    /\ ticks = 0
    /\ tz \in HostOffsets
    /\ legacyParse \in HostParsers
    /\ timeEntries = <<>>
    /\ filters = [dateFrom |-> Some(format(startOfWeek(now, tz), tz)),
                  dateTo |-> Some(format(endOfWeek(now, tz), tz)),
                  customer |-> "",
                  project |-> "",
                  groupBy |-> "customer",
                  billableOnly |-> FALSE]
    /\ selectedPeriodView = "week"
    /\ reportData = <<>>
    /\ totalHours = 0
    /\ totalBillableHours = 0
    /\ totalNonBillableHours = 0
    /\ periodSummaries = <<>>
    /\ clientSummaries = <<>>
    /\ generatedAt = Null
    /\ OtherPagesInit

\* the effect of Reports.tsx:496-508, run after a render in which the entry
\* list, the filters or the period view were set: the three generators run
\* on the new state, unless the entry list is empty
GenerateReports(entries, f, view) ==
    IF Len(entries) > 0
    THEN LET report == generateReport(entries, f, now, tz, legacyParse)
         IN  /\ reportData' = report.reportData
             /\ totalHours' = report.totalHours
             /\ totalBillableHours' = report.totalBillableHours
             /\ totalNonBillableHours' = report.totalNonBillableHours
             /\ periodSummaries' = generatePeriodSummaries(entries, f, view, now, tz)
             /\ clientSummaries' = generateClientSummaries(entries, now)
             /\ generatedAt' = Some(now)
    ELSE UNCHANGED <<reportData, totalHours, totalBillableHours,
                     totalNonBillableHours, periodSummaries, clientSummaries,
                     generatedAt>>

\* fetchTimeEntries, Reports.tsx:510-549, when the query succeeds with one
\* of results
fetchTimeEntries(results) ==
    \E data \in results :
        /\ timeEntries' = data
        /\ GenerateReports(data, filters, selectedPeriodView)
        /\ UNCHANGED <<filters, selectedPeriodView, now, tz, legacyParse, ticks>>
        /\ UNCHANGED otherPages

FetchTimeEntries == fetchTimeEntries(FetchResults)

\* handleFilterChange, Reports.tsx:694-702: one field of the form is set;
\* names are the fields the user edits
handleFilterChange(names) ==
    \E name \in names : \E value \in FilterValues(name) :
        /\ filters' = [filters EXCEPT ![name] = value]
        /\ GenerateReports(timeEntries, filters', selectedPeriodView)
        /\ UNCHANGED <<timeEntries, selectedPeriodView, now, tz, legacyParse, ticks>>
        /\ UNCHANGED otherPages

\* the dateFrom and dateTo that setDateRange(range) sets, Reports.tsx:709-749
dateRangeOf(range, clock, off) ==
    LET today == LocalDay(clock, off)
        c == CivilFromDays(today)
        firstOfMonth == DaysFromCivil(c[1], c[2], 1)
        firstOfNext == IF c[2] = 12 THEN DaysFromCivil(c[1] + 1, 1, 1)
                       ELSE DaysFromCivil(c[1], c[2] + 1, 1)
        firstOfLast == IF c[2] = 1 THEN DaysFromCivil(c[1] - 1, 12, 1)
                       ELSE DaysFromCivil(c[1], c[2] - 1, 1)
    IN  CASE range = "today" -> <<Some(today), Some(today)>>
          [] range = "thisWeek" ->
                <<Some(format(startOfWeek(clock, off), off)),
                  Some(format(endOfWeek(clock, off), off))>>
          [] range = "thisMonth" -> <<Some(firstOfMonth), Some(firstOfNext - 1)>>
          [] range = "lastMonth" -> <<Some(firstOfLast), Some(firstOfMonth - 1)>>
          [] range = "allTime" -> <<Null, Null>>

\* setDateRange, Reports.tsx:709-749; ranges are the buttons the user presses
setDateRange(ranges) ==
    \E range \in ranges :
        /\ filters' = [filters EXCEPT
                         !.dateFrom = dateRangeOf(range, now, tz)[1],
                         !.dateTo = dateRangeOf(range, now, tz)[2]]
        /\ GenerateReports(timeEntries, filters', selectedPeriodView)
        /\ UNCHANGED <<timeEntries, selectedPeriodView, now, tz, legacyParse, ticks>>
        /\ UNCHANGED otherPages

\* setSelectedPeriodView, Reports.tsx:1426-1446: setting the view it already
\* has renders nothing
SetSelectedPeriodView ==
    \E view \in PeriodViews \ {selectedPeriodView} :
        /\ selectedPeriodView' = view
        /\ GenerateReports(timeEntries, filters, view)
        /\ UNCHANGED <<timeEntries, filters, now, tz, legacyParse, ticks>>
        /\ UNCHANGED otherPages

\* the wall clock moves on
Tick ==
    /\ ticks < MaxTicks
    /\ ticks' = ticks + 1
    /\ now' = now + TickSeconds
    /\ UNCHANGED <<timeEntries, filters, selectedPeriodView, reportData,
                   totalHours, totalBillableHours, totalNonBillableHours,
                   periodSummaries, clientSummaries, tz, legacyParse,
                   generatedAt>>
    /\ UNCHANGED otherPages

\* the state of the Reports page
reportsPage == <<timeEntries, filters, selectedPeriodView, reportData,
                 totalHours, totalBillableHours, totalNonBillableHours,
                 periodSummaries, clientSummaries, generatedAt>>

\* fetchDashboardData, Dashboard.tsx:52-240, when the query succeeds
fetchDashboardData ==
    \E allTimeEntries \in DashboardFetchResults :
        /\ dashboardHighlights' =
              [fetched |-> allTimeEntries,
               highlights |-> dashboardTimeHighlights(allTimeEntries, now, tz)]
        /\ UNCHANGED <<entriesHighlights, rangeArgs, rangeResult, entriesPage>>
        /\ UNCHANGED <<reportsPage, now, tz, legacyParse, ticks>>

\* fetchTimeEntries of the TimeEntries page, TimeEntries.tsx:113-195, when
\* the query succeeds
fetchTimeEntriesPage ==
    \E data \in TimeEntriesFetchResults :
        /\ entriesHighlights' =
              [fetched |-> data,
               highlights |-> calculateTimeHighlights(data, now, tz)]
        /\ UNCHANGED <<dashboardHighlights, rangeArgs, rangeResult, entriesPage>>
        /\ UNCHANGED <<reportsPage, now, tz, legacyParse, ticks>>

\* a call of isDateInRange: the arguments are bound
CallIsDateInRange ==
    /\ \E date \in {Null} \cup { Some(d) : d \in RangeDates(tz) } :
       \E start \in RangeDates(tz) :
       \E end \in {Null} \cup { Some(d) : d \in RangeDates(tz) } :
          rangeArgs' = [date |-> date, start |-> start, end |-> end]
    /\ rangeResult' = Null
    /\ UNCHANGED <<dashboardHighlights, entriesHighlights, entriesPage>>
    /\ UNCHANGED <<reportsPage, now, tz, legacyParse, ticks>>

\* the call returns
ReturnIsDateInRange ==
    /\ rangeArgs # NoRangeArgs
    /\ rangeResult = Null
    /\ rangeResult' = Some(isDateInRange(rangeArgs.date, rangeArgs.start,
                                         rangeArgs.end))
    /\ UNCHANGED <<rangeArgs, dashboardHighlights, entriesHighlights, entriesPage>>
    /\ UNCHANGED <<reportsPage, now, tz, legacyParse, ticks>>

\* the report as a user reads it: the grouping is switched, the date range is
\* opened to all time and closed to this week again, the period view is
\* switched, entries are refetched, and time passes
Next ==
    \/ FetchTimeEntries
    \/ handleFilterChange({"groupBy"})
    \/ setDateRange({"allTime", "thisWeek"})
    \/ SetSelectedPeriodView
    \/ Tick

Spec == Init /\ [][Next]_vars

\* the report under the date range and the billable filter: entries are
\* fetched, the two dates and the billable switch of the filter form are
\* edited, and the period view is switched
NextFilter ==
    \/ fetchTimeEntries(FilterFetchResults)
    \/ handleFilterChange({"dateFrom", "dateTo", "billableOnly"})
    \/ SetSelectedPeriodView

SpecFilter == Init /\ [][NextFilter]_vars

\* the client summaries of the entry lists a fetch can bring
NextClients == fetchTimeEntries(ClientFetchResults)

SpecClients == Init /\ [][NextClients]_vars

\* the clocks the highlight pages are mounted at: noon UTC of the seven days
\* from Tuesday 2024-02-06 to Monday 2024-02-12
WeekClocks == { MountTime + k * SecondsPerDay : k \in 0..6 }

InitHighlights ==
    /\ now \in WeekClocks
    /\ ticks = 0
    /\ tz \in HostOffsets
    /\ legacyParse \in HostParsers
    /\ timeEntries = <<>>
    /\ filters = [dateFrom |-> Some(format(startOfWeek(now, tz), tz)),
                  dateTo |-> Some(format(endOfWeek(now, tz), tz)),
                  customer |-> "",
                  project |-> "",
                  groupBy |-> "customer",
                  billableOnly |-> FALSE]
    /\ selectedPeriodView = "week"
    /\ reportData = <<>>
    /\ totalHours = 0
    /\ totalBillableHours = 0
    /\ totalNonBillableHours = 0
    /\ periodSummaries = <<>>
    /\ clientSummaries = <<>>
    /\ generatedAt = Null
    /\ OtherPagesInit

\* the Dashboard and the TimeEntries page load their entries
NextHighlights ==
    \/ fetchDashboardData
    \/ fetchTimeEntriesPage

SpecHighlights == InitHighlights /\ [][NextHighlights]_vars

\* isDateInRange is called and returns
NextRange ==
    \/ CallIsDateInRange
    \/ ReturnIsDateInRange

SpecRange == Init /\ [][NextRange]_vars

-----------------------------------------------------------------------------
(* Properties *)

\* the inputs the displayed report was generated from: the generators have
\* run, on the current entries, filters and period view, at generatedAt
Generated == IsSet(generatedAt)
GeneratedClock == Val(generatedAt)
FilteredEntries == filterTimeEntries(timeEntries, filters, GeneratedClock, tz)

Abs(x) == IF x < 0 THEN 0 - x ELSE x

SeqSum(s, Op(_)) == SumSeq([i \in 1..Len(s) |-> Op(s[i])])

IsRunningTimer(e) ==
    IsSet(e.start_time) /\ ~ IsSet(e.end_time) /\ ~ IsSet(e.duration_minutes)

IsReversed(e) ==
    /\ IsSet(e.start_time) /\ IsSet(e.end_time) /\ ~ IsSet(e.duration_minutes)
    /\ Val(e.end_time) < Val(e.start_time)

\* C1: every entry whose duration_minutes is set, 0 included, is aggregated
\* with duration_minutes * 60 seconds, whatever timestamps it carries.
C1_DurationMinutesWins ==
    \A i \in DOMAIN timeEntries :
        IsSet(timeEntries[i].duration_minutes) =>
            calculateDuration(timeEntries[i], now)
                = Val(timeEntries[i].duration_minutes) * 60

\* C2: an entry whose end_time is before its start_time resolves to 0, and
\* no displayed row, period summary, client summary or total is negative.
C2_NoNegativeHours ==
    /\ \A i \in DOMAIN timeEntries :
          IsReversed(timeEntries[i]) => calculateDuration(timeEntries[i], now) = 0
    /\ \A i \in DOMAIN reportData :
          /\ reportData[i].seconds >= 0
          /\ reportData[i].value >= 0
          /\ reportData[i].billableHours >= 0
          /\ reportData[i].nonBillableHours >= 0
    /\ totalHours >= 0 /\ totalBillableHours >= 0 /\ totalNonBillableHours >= 0
    /\ \A i \in DOMAIN periodSummaries :
          /\ periodSummaries[i].totalHours >= 0
          /\ periodSummaries[i].billableHours >= 0
          /\ periodSummaries[i].nonBillableHours >= 0
    /\ \A i \in DOMAIN clientSummaries :
          /\ clientSummaries[i].totalHours >= 0
          /\ clientSummaries[i].billableHours >= 0
          /\ clientSummaries[i].nonBillableHours >= 0

\* C3: a running timer (start_time only) adds 0 seconds to the aggregation:
\* a report of running timers alone shows a total of 0 hours and no client.
C3_RunningTimerAddsNothing ==
    /\ \A i \in DOMAIN timeEntries :
          IsRunningTimer(timeEntries[i]) =>
              calculateDuration(timeEntries[i], now) = 0
    /\ (Generated /\ \A i \in DOMAIN timeEntries : IsRunningTimer(timeEntries[i]))
          => totalHours = 0 /\ clientSummaries = <<>>

\* the calendar day the specification resolves for an entry: date, else the
\* day of start_time, else the day of created_at
SpecifiedDay(e, off) ==
    IF IsSet(e.date) THEN Val(e.date)
    ELSE IF IsSet(e.start_time) THEN LocalDay(Val(e.start_time), off)
    ELSE LocalDay(e.created_at, off)

\* C4: the day an entry is filtered and bucketed by is its date, else the
\* calendar day of start_time, else the calendar day of created_at, never
\* the day of the wall clock.
C4_EffectiveDate ==
    \A i \in DOMAIN timeEntries :
        format(entryDate(timeEntries[i], now), tz) = SpecifiedDay(timeEntries[i], tz)

\* C5: with groupBy = day the displayed rows are in strictly ascending order
\* of the day they stand for.
C5_DayRowsAscending ==
    (Generated /\ filters.groupBy = "day") =>
        \A i, j \in DOMAIN reportData :
            i < j => Val(reportData[i].day) < Val(reportData[j].day)

\* C6: the displayed period summaries are in ascending chronological order of
\* their periods, for the week, the month and the quarter view.
C6_PeriodsAscending ==
    \A i, j \in DOMAIN periodSummaries :
        i < j => periodSummaries[i].ordinal < periodSummaries[j].ordinal

\* C7: in every displayed row, period summary and client summary the rounded
\* billable and non-billable hours add up to the rounded total hours within
\* one hundredth of an hour.
C7_SplitWithinTolerance ==
    /\ \A i \in DOMAIN reportData :
          Abs(reportData[i].billableHours + reportData[i].nonBillableHours
                - reportData[i].value) <= 1
    /\ \A i \in DOMAIN periodSummaries :
          Abs(periodSummaries[i].billableHours + periodSummaries[i].nonBillableHours
                - periodSummaries[i].totalHours) <= 1
    /\ \A i \in DOMAIN clientSummaries :
          Abs(clientSummaries[i].billableHours + clientSummaries[i].nonBillableHours
                - clientSummaries[i].totalHours) <= 1

\* a row where both parts are present and the three roundings disagree
C7_Witness ==
    \E i \in DOMAIN reportData :
        /\ reportData[i].billableSeconds > 0
        /\ reportData[i].nonBillableSeconds > 0
        /\ reportData[i].billableHours + reportData[i].nonBillableHours
              # reportData[i].value

BillableDuration(e) == IF e.billable THEN calculateDuration(e, GeneratedClock) ELSE 0
NonBillableDuration(e) == IF e.billable THEN 0 ELSE calculateDuration(e, GeneratedClock)
ResolvedDuration(e) == calculateDuration(e, GeneratedClock)
RowSeconds(r) == r.seconds
RowBillableSeconds(r) == r.billableSeconds
RowNonBillableSeconds(r) == r.nonBillableSeconds

C9_RowNamesDistinct ==
    Generated =>
        /\ \A i, j \in DOMAIN reportData :
              i # j => reportData[i].name # reportData[j].name
        /\ Len(reportData) = Cardinality(
              { groupKey(FilteredEntries[i], filters, GeneratedClock, tz) :
                    i \in DOMAIN FilteredEntries })

\* C10: while the entry list stays the same, a change of the filters or of
\* the period view leaves the client summaries as they were.
C10_ClientSummariesKeepUnderFilters ==
    [][(timeEntries' = timeEntries
          /\ (filters' # filters \/ selectedPeriodView' # selectedPeriodView))
        => clientSummaries' = clientSummaries]_vars

-----------------------------------------------------------------------------
(* Client summaries: amounts and clients without hours *)

\* the entries generateClientSummaries attributes to the customer c
AttributedTo(c) ==
    SelectSeq(timeEntries,
              LAMBDA e : IsSet(e.customer) /\ e.customer_id # ""
                            /\ Val(e.customer).id = c)

\* seconds * rate that one entry adds to its client's amount
AmountSecondsRate(e) ==
    IF e.billable /\ IsSet(e.rate)
    THEN calculateDuration(e, GeneratedClock) * Val(e.rate) ELSE 0

\* C11, as stated: every client's billableAmount is exactly the sum over its
\* billable entries of (resolved seconds / 3600) * rate; in hundredths of the
\* currency unit, amount * 36 = sum of seconds * rate.
C11_AmountIsExactSum ==
    Generated =>
        \A i \in DOMAIN clientSummaries :
            clientSummaries[i].billableAmount * 36
                = SeqSum(AttributedTo(clientSummaries[i].clientId), AmountSecondsRate)

\* C11, amended: every client's billableAmount is the sum over its billable
\* entries of (resolved seconds / 3600) * rate, rounded half up to two
\* decimals; an entry with an absent or zero rate and a non-billable entry add
\* nothing to it, and every billable entry counts in billableHours.
C11_AmountIsRoundedSum ==
    Generated =>
        \A i \in DOMAIN clientSummaries :
            /\ clientSummaries[i].billableAmount
                  = RoundHundredths(SeqSum(AttributedTo(clientSummaries[i].clientId),
                                           AmountSecondsRate))
            /\ clientSummaries[i].billableHours
                  = RoundHundredths(SeqSum(AttributedTo(clientSummaries[i].clientId),
                                           BillableDuration))

\* a client with an amount, one of whose billable entries has time but no
\* rate or a rate of 0
C11_Witness ==
    /\ Generated
    /\ \E i \in DOMAIN clientSummaries :
          /\ clientSummaries[i].billableAmount > 0
          /\ \E j \in DOMAIN timeEntries :
                /\ timeEntries[j].customer_id = clientSummaries[i].clientId
                /\ timeEntries[j].billable
                /\ (~ IsSet(timeEntries[j].rate) \/ Val(timeEntries[j].rate) = 0)
                /\ calculateDuration(timeEntries[j], GeneratedClock) > 0

\* C12: no client summary is shown for a customer whose entries' resolved
\* durations add up to exactly 0 seconds.
C12_NoClientWithoutSeconds ==
    Generated =>
        \A i \in DOMAIN clientSummaries :
            SeqSum(AttributedTo(clientSummaries[i].clientId), ResolvedDuration) # 0

\* a customer has entries, they add up to 0 seconds, and it has no summary
C12_Witness ==
    /\ Generated
    /\ \E j \in DOMAIN timeEntries :
          /\ AttributedTo(timeEntries[j].customer_id) # <<>>
          /\ SeqSum(AttributedTo(timeEntries[j].customer_id), ResolvedDuration) = 0
          /\ \A i \in DOMAIN clientSummaries :
                clientSummaries[i].clientId # timeEntries[j].customer_id

-----------------------------------------------------------------------------
(* The date range and the billable filter *)

\* the calendar day of an entry that has a date or a start_time: the date,
\* else the host-local day of start_time
DatedDay(e, off) ==
    IF IsSet(e.date) THEN Val(e.date) ELSE LocalDay(Val(e.start_time), off)

\* from <= d <= to, for the ends of the range that are set
InDayRange(d, f) ==
    /\ IsSet(f.dateFrom) => Val(f.dateFrom) <= d
    /\ IsSet(f.dateTo) => d <= Val(f.dateTo)

IsKept(e) == \E j \in DOMAIN FilteredEntries : FilteredEntries[j].id = e.id

ReversedRange(f) ==
    IsSet(f.dateFrom) /\ IsSet(f.dateTo) /\ Val(f.dateFrom) > Val(f.dateTo)

\* C13: an entry with a date or a start_time passes the filter iff its
\* calendar day d satisfies from <= d <= to for the ends that are set (and
\* it is billable when billableOnly is set), whatever the time of day.
C13_DateFilterInclusive ==
    Generated =>
        \A i \in DOMAIN timeEntries :
            (IsSet(timeEntries[i].date) \/ IsSet(timeEntries[i].start_time)) =>
                (IsKept(timeEntries[i])
                    <=> /\ InDayRange(DatedDay(timeEntries[i], tz), filters)
                        /\ filters.billableOnly => timeEntries[i].billable)

-----------------------------------------------------------------------------
(* The range test and the highlights *)

\* C16: isDateInRange returns false for a null date; with an end it returns
\* true iff start <= date <= end, both ends included; without an end it
\* returns true iff date >= start.
C16_RangeInclusive ==
    IsSet(rangeResult) =>
        (Val(rangeResult)
            <=> /\ IsSet(rangeArgs.date)
                /\ rangeArgs.start <= Val(rangeArgs.date)
                /\ IsSet(rangeArgs.end) => Val(rangeArgs.date) <= Val(rangeArgs.end))

\* a call with the date at the end of a range that is not a single instant
\* has returned true
C16_Witness ==
    /\ rangeResult = Some(TRUE)
    /\ IsSet(rangeArgs.end)
    /\ rangeArgs.date = rangeArgs.end
    /\ rangeArgs.start < Val(rangeArgs.end)

\* the host-local calendar day of the date a highlight tests an entry by
HighlightDay(e, off) == LocalDay(Val(getEntryDate(e, off)), off)

\* the day number of the Monday on or before the clock's local day
MondayOf(clock, off) ==
    LocalDay(clock, off) - ((getDay(LocalDay(clock, off)) + 6) % 7)

\* the entry e is among the entries of the highlight of the period
Counted(page, period, e) ==
    \E i \in DOMAIN page.highlights :
        /\ page.highlights[i].period = period
        /\ \E j \in DOMAIN page.highlights[i].entries :
              page.highlights[i].entries[j].id = e.id

\* C17: on the Dashboard and on the TimeEntries page, 'This Week' counts an
\* entry iff its day lies from the Monday on or before now to the Sunday on
\* or after now.
C17_ThisWeekWindow ==
    /\ \A i \in DOMAIN dashboardHighlights.fetched :
          Counted(dashboardHighlights, "This Week", dashboardHighlights.fetched[i])
            <=> /\ MondayOf(now, tz) <= HighlightDay(dashboardHighlights.fetched[i], tz)
                /\ HighlightDay(dashboardHighlights.fetched[i], tz) <= MondayOf(now, tz) + 6
    /\ \A i \in DOMAIN entriesHighlights.fetched :
          Counted(entriesHighlights, "This Week", entriesHighlights.fetched[i])
            <=> /\ MondayOf(now, tz) <= HighlightDay(entriesHighlights.fetched[i], tz)
                /\ HighlightDay(entriesHighlights.fetched[i], tz) <= MondayOf(now, tz) + 6

\* C18: on the Dashboard and on the TimeEntries page, 'Today' counts an entry
\* iff its day is the day of now.
C18_TodayWindow ==
    /\ \A i \in DOMAIN dashboardHighlights.fetched :
          Counted(dashboardHighlights, "Today", dashboardHighlights.fetched[i])
            <=> HighlightDay(dashboardHighlights.fetched[i], tz) = LocalDay(now, tz)
    /\ \A i \in DOMAIN entriesHighlights.fetched :
          Counted(entriesHighlights, "Today", entriesHighlights.fetched[i])
            <=> HighlightDay(entriesHighlights.fetched[i], tz) = LocalDay(now, tz)

-----------------------------------------------------------------------------
(* Percentages *)

\* C19: the billablePercentage of every period summary and of the report as
\* a whole is an integer from 0 to 100.
C19_PercentageInRange ==
    /\ \A i \in DOMAIN periodSummaries :
          periodSummaries[i].billablePercentage \in 0..100
    /\ billablePercentage \in 0..100

\* C20: every percentage the report shows is a number, and it is 0 when the
\* total hours are 0: the billable percentage, and the share of each row in
\* the total.
C20_PercentagesGuarded ==
    /\ totalHours = 0 => billablePercentage = 0
    /\ \A i \in DOMAIN reportData :
          /\ sharePercentage(reportData[i], totalHours).kind = "number"
          /\ totalHours = 0 => sharePercentage(reportData[i], totalHours).v = 0


-----------------------------------------------------------------------------
(* Determinism and the duration at the three call sites *)

\* C21: the displayed report rows, totals, period summaries and client
\* summaries are what a run of the three generators on the same entries,
\* filters and period view gives at any other wall-clock time.
C21_SameAtAnyClock ==
    Generated =>
        LET report == generateReport(timeEntries, filters, now, tz, legacyParse)
        IN  /\ reportData = report.reportData
            /\ totalHours = report.totalHours
            /\ totalBillableHours = report.totalBillableHours
            /\ totalNonBillableHours = report.totalNonBillableHours
            /\ periodSummaries
                  = generatePeriodSummaries(timeEntries, filters,
                                            selectedPeriodView, now, tz)
            /\ clientSummaries = generateClientSummaries(timeEntries, now)

\* C22: for every entry, the seconds that calculateTotalHours of the
\* Dashboard and of the TimeEntries page adds and the seconds that
\* calculateDuration of the Reports page resolves are the same.
C22_SameDurationEverywhere ==
    \A i \in DOMAIN timeEntries :
        entryMinutes(timeEntries[i]) * 60 = calculateDuration(timeEntries[i], now)


-----------------------------------------------------------------------------
(* The day rows and the period buckets against the date range *)

\* the report by day under the date range: entries are fetched, the two dates
\* and the grouping of the filter form are edited, and the period view is
\* switched
NextBuckets ==
    \/ fetchTimeEntries(FilterFetchResults)
    \/ handleFilterChange({"dateFrom", "dateTo", "groupBy"})
    \/ SetSelectedPeriodView

SpecBuckets == Init /\ [][NextBuckets]_vars

\* the first and the last calendar day of the period at the chronological
\* position ordinal of the view
PeriodFirstDay(ordinal, view) ==
    CASE view = "week" -> ordinal
      [] view = "month" ->
            LET y == (ordinal - 1) \div 12
            IN  DaysFromCivil(y, ordinal - 12 * y, 1)
      [] view = "quarter" ->
            LET y == (ordinal - 1) \div 4
            IN  DaysFromCivil(y, 3 * (ordinal - 4 * y) - 2, 1)

PeriodLastDay(ordinal, view) ==
    CASE view = "week" -> ordinal + 6
      [] view = "month" -> PeriodFirstDay(ordinal + 1, view) - 1
      [] view = "quarter" -> PeriodFirstDay(ordinal + 1, view) - 1

\* C23: with groupBy = day the day of every displayed row lies within the
\* from and to days of the filter, and in every period view every displayed
\* period has at least one day within them.
C23_BucketsWithinRange ==
    Generated =>
        /\ filters.groupBy = "day" =>
              \A i \in DOMAIN reportData :
                  InDayRange(Val(reportData[i].day), filters)
        /\ \A i \in DOMAIN periodSummaries :
              LET first == PeriodFirstDay(periodSummaries[i].ordinal,
                                          selectedPeriodView)
                  last == PeriodLastDay(periodSummaries[i].ordinal,
                                        selectedPeriodView)
              IN  /\ IsSet(filters.dateFrom) => Val(filters.dateFrom) <= last
                  /\ IsSet(filters.dateTo) => first <= Val(filters.dateTo)


-----------------------------------------------------------------------------
(* The order of the rows by customer, project and task *)

Build == [id |-> "t-build", name |-> "Build"]

\* rows of the week of the mount for the order of the report: two customers
\* with 90 minutes each, on two tasks; 50 minutes without customer and task;
\* and 30 minutes more for the second customer
OrderEntries ==
    { TimeEntry("o1", Some(Acme), Null, Null, Some(90),
                Some(DaysFromCivil(2024, 2, 6)), TRUE, Null,
                At(2024, 2, 6, 9, 0, 0)),
      [TimeEntry("o2", Some(Bolt), Null, Null, Some(90),
                 Some(DaysFromCivil(2024, 2, 6)), FALSE, Null,
                 At(2024, 2, 6, 10, 0, 0)) EXCEPT !.task = Some(Build)],
      [TimeEntry("o3", Null, Null, Null, Some(50),
                 Some(DaysFromCivil(2024, 2, 7)), TRUE, Null,
                 At(2024, 2, 6, 11, 0, 0)) EXCEPT !.task = Null],
      TimeEntry("o4", Some(Bolt), Null, Null, Some(30),
                Some(DaysFromCivil(2024, 2, 7)), TRUE, Null,
                At(2024, 2, 6, 11, 30, 0)) }

\* up to MaxEntries + 1 of these rows, in the order of the query: none has a
\* start_time, and the store returns such rows in any order
OrderFetchResults ==
    { s \in UNION { [1..n -> OrderEntries] : n \in 1..(MaxEntries + 1) } :
        \A i, j \in DOMAIN s :
            i < j => s[i].id # s[j].id /\ StartOrder(s[i], s[j]) }

\* the report in its groupings: entries are fetched and the grouping is
\* switched
NextOrder ==
    \/ fetchTimeEntries(OrderFetchResults)
    \/ handleFilterChange({"groupBy"})

SpecOrder == Init /\ [][NextOrder]_vars

\* the position in the filtered entry list of the first entry of a row
FirstEntryOf(row) ==
    CHOOSE j \in DOMAIN FilteredEntries :
        /\ groupKey(FilteredEntries[j], filters, GeneratedClock, tz) = row.name[1]
        /\ \A k \in 1..(j - 1) :
              groupKey(FilteredEntries[k], filters, GeneratedClock, tz) # row.name[1]

\* C24: with groupBy = customer or task the displayed rows are in
\* non-increasing order of their seconds, and rows with equal seconds stand in
\* the order in which their first entries stand in the entry list, so the
\* order is a function of the list.
C24_RowsBySecondsDescending ==
    (Generated /\ filters.groupBy \in {"customer", "task"}) =>
        \A i, j \in DOMAIN reportData :
            i < j =>
              /\ reportData[i].seconds >= reportData[j].seconds
              /\ reportData[i].seconds = reportData[j].seconds
                    => FirstEntryOf(reportData[i]) < FirstEntryOf(reportData[j])

\* three rows by customer or task: two with equal seconds, and one with more
\* seconds than a row whose first entry stands before its own
C24_Witness ==
    /\ Generated
    /\ filters.groupBy \in {"customer", "task"}
    /\ \E i, j \in DOMAIN reportData :
          i < j /\ reportData[i].seconds = reportData[j].seconds
    /\ \E i, j \in DOMAIN reportData :
          /\ i < j
          /\ reportData[i].seconds > reportData[j].seconds
          /\ FirstEntryOf(reportData[i]) > FirstEntryOf(reportData[j])


-----------------------------------------------------------------------------
(* The displayed report after refreshes *)

\* what a refresh can return: the rows above, up to MaxEntries of them, or
\* no row at all once the entries were deleted
RefreshResults ==
    { s \in OrderFetchResults : Len(s) <= MaxEntries } \cup { <<>> }

\* the report across refreshes: entries are refetched, the billable switch
\* of the filter form is edited, and the period view is switched
NextRefresh ==
    \/ fetchTimeEntries(RefreshResults)
    \/ handleFilterChange({"billableOnly"})
    \/ SetSelectedPeriodView

SpecRefresh == Init /\ [][NextRefresh]_vars

\* C25: after every refresh, filter change and period-view change, the
\* displayed rows, totals, period summaries and client summaries are the
\* aggregation of the current entry list under the current filters and
\* period view, an empty list included.
C25_DisplayIsCurrent ==
    LET current == generateReport(timeEntries, filters, now, tz, legacyParse)
    IN  /\ reportData = current.reportData
        /\ totalHours = current.totalHours
        /\ totalBillableHours = current.totalBillableHours
        /\ totalNonBillableHours = current.totalNonBillableHours
        /\ periodSummaries
              = generatePeriodSummaries(timeEntries, filters,
                                        selectedPeriodView, now, tz)
        /\ clientSummaries = generateClientSummaries(timeEntries, now)


-----------------------------------------------------------------------------
(* The project filter *)

\* the report under the project and the customer filter: entries are
\* fetched, and the project and the customer of the filter form are chosen
NextProject ==
    \/ fetchTimeEntries(OrderFetchResults)
    \/ handleFilterChange({"project", "customer"})

SpecProject == Init /\ [][NextProject]_vars

-----------------------------------------------------------------------------
(* Which entries and which customers the client summaries show *)

\* rows for the attribution to clients: the entry of 90 minutes for Acme and
\* the entry without customer from above, and
\*   e12: a closed timer of 17 seconds for Bolt
\*   e13: 40 minutes with a customer_id whose customer record the join did
\*        not return
\*   e14: a closed timer of 1 second for Bolt
AttributionEntries ==
    { e \in Entries : e.id \in {"e1", "e6"} }
    \cup
    { TimeEntry("e12", Some(Bolt), Some(At(2024, 2, 6, 9, 0, 0)),
                Some(At(2024, 2, 6, 9, 0, 17)), Null, Null, TRUE, Some(500),
                At(2024, 2, 6, 9, 0, 0)),
      [TimeEntry("e13", Null, Null, Null, Some(40),
                 Some(DaysFromCivil(2024, 2, 6)), TRUE, Null,
                 At(2024, 2, 6, 10, 0, 0)) EXCEPT !.customer_id = "c-gone"],
      TimeEntry("e14", Some(Bolt), Some(At(2024, 2, 6, 9, 30, 0)),
                Some(At(2024, 2, 6, 9, 30, 1)), Null, Null, FALSE, Null,
                At(2024, 2, 6, 9, 30, 0)) }

AttributionFetchResults ==
    { s \in UNION { [1..n -> AttributionEntries] : n \in 1..MaxEntries } :
        \A i, j \in DOMAIN s :
            i < j => s[i].id # s[j].id /\ StartOrder(s[i], s[j]) }

\* the client summaries beside the report by customer: entries are fetched
\* and the grouping is switched
NextAttribution ==
    \/ fetchTimeEntries(AttributionFetchResults)
    \/ handleFilterChange({"groupBy"})

SpecAttribution == Init /\ [][NextAttribution]_vars

\* the entry has a customer_id and a joined customer record
HasCustomer(e) == IsSet(e.customer) /\ e.customer_id # ""

\* the seconds of the entries behind the i-th client summary
SummarySeconds(i) ==
    SeqSum(AttributedTo(clientSummaries[i].clientId), ResolvedDuration)

\* C27: every client summary is made of the entries that have both a
\* customer_id and a joined customer record of that customer and of no other
\* entry, the kept entries that lack either stand under 'Unknown Customer' in
\* the report by customer, and the seconds of the client summaries add up to
\* the seconds of exactly the entries that have both.
C27_SummariesOfAttributedEntries ==
    Generated =>
        /\ \A i \in DOMAIN clientSummaries :
              clientSummaries[i].totalHours = RoundHundredths(SummarySeconds(i))
        /\ filters.groupBy = "customer" =>
              \A j \in DOMAIN FilteredEntries :
                  ~ HasCustomer(FilteredEntries[j]) =>
                      \E i \in DOMAIN reportData :
                          reportData[i].name = <<"Unknown Customer">>
        /\ SumSeq([i \in DOMAIN clientSummaries |-> SummarySeconds(i)])
              = SeqSum(SelectSeq(timeEntries, HasCustomer), ResolvedDuration)

\* C28: a customer with at least one entry attributed to it has a client
\* summary iff the resolved durations of its entries add up to more than 0
\* seconds, however few.
C28_ListedIffPositive ==
    Generated =>
        \A j \in DOMAIN timeEntries :
            HasCustomer(timeEntries[j]) =>
                LET c == Val(timeEntries[j].customer).id
                IN  (\E i \in DOMAIN clientSummaries :
                        clientSummaries[i].clientId = c)
                    <=> SeqSum(AttributedTo(c), ResolvedDuration) > 0


-----------------------------------------------------------------------------
(* The TimeEntries page: the list, the edit form and the timer *)

\* the state of the other pages and of the host
elsewhere == <<reportsPage, tz, legacyParse, dashboardHighlights, rangeArgs,
               rangeResult>>

\* .order('created_at', { ascending: false }) over the rows ids of a table,
\* TimeEntries.tsx:156-175
RECURSIVE storedRows(_, _)
storedRows(table, ids) ==
    IF ids = {} THEN <<>>
    ELSE LET first == CHOOSE i \in ids :
                          \A j \in ids : table[i].created_at >= table[j].created_at
         IN  <<table[first]>> \o storedRows(table, ids \ {first})

\* the state that fetchTimeEntries sets from a table, TimeEntries.tsx:113-195:
\* the active timer is the single row with a start_time and no end_time
\* (.single() gives no row when there are none or several), the elapsed time
\* is counted from its start_time, and the list and its highlights are set
setFetched(table) ==
    LET running == { id \in DOMAIN table :
                        IsSet(table[id].start_time) /\ ~ IsSet(table[id].end_time) }
        data == storedRows(table, DOMAIN table)
    IN  /\ IF Cardinality(running) = 1
           THEN LET activeTimerData == table[CHOOSE id \in running : TRUE]
                IN  /\ activeTimer' = Some(activeTimerData)
                    /\ elapsedTime' = differenceInSeconds(
                                          now, Val(activeTimerData.start_time))
           ELSE /\ activeTimer' = Null
                /\ elapsedTime' = 0
        /\ entriesHighlights' =
              [fetched |-> data,
               highlights |-> calculateTimeHighlights(data, now, tz)]

\* fetchTimeEntries of the TimeEntries page on the table, when the queries
\* succeed
fetchStoredTimeEntries ==
    /\ setFetched(store)
    /\ UNCHANGED <<store, isModalOpen, currentTimeEntry, formData, error>>
    /\ UNCHANGED <<elsewhere, now, ticks>>

\* the formData that openModal sets for an entry, TimeEntries.tsx:385-408
editForm(timeEntry, clock, off) ==
    LET date == IF IsSet(timeEntry.date) THEN timeEntry.date
                ELSE IF IsSet(timeEntry.start_time)
                THEN Some(format(Val(timeEntry.start_time), off))
                ELSE Some(format(clock, off))
        durationInMinutes ==
            IF IsSet(timeEntry.duration_minutes)
            THEN timeEntry.duration_minutes
            ELSE IF IsSet(timeEntry.start_time) /\ IsSet(timeEntry.end_time)
            THEN Some(differenceInSeconds(Val(timeEntry.end_time),
                                          Val(timeEntry.start_time)) \div 60)
            ELSE Null
    IN  [task_id |-> timeEntry.task_id,
         project_id |-> timeEntry.project_id,
         customer_id |-> timeEntry.customer_id,
         date |-> date,
         duration_hours |->
            IF IsSet(durationInMinutes)
            THEN toString(Val(durationInMinutes) \div 60) ELSE EmptyText,
         duration_minutes |->
            IF IsSet(durationInMinutes)
            THEN toString(Remainder(Val(durationInMinutes), 60)) ELSE EmptyText,
         billable |-> timeEntry.billable,
         rate |-> IF IsSet(timeEntry.rate) /\ Val(timeEntry.rate) # 0
                  THEN toString(Val(timeEntry.rate)) ELSE EmptyText]

\* openModal(entry) for an entry of the list, TimeEntries.tsx:381-434
openModal ==
    /\ \E i \in DOMAIN entriesHighlights.fetched :
          LET timeEntry == entriesHighlights.fetched[i]
          IN  /\ currentTimeEntry' = Some(timeEntry)
              /\ formData' = editForm(timeEntry, now, tz)
    /\ isModalOpen' = TRUE
    /\ UNCHANGED <<store, activeTimer, elapsedTime, error, entriesHighlights>>
    /\ UNCHANGED <<elsewhere, now, ticks>>

\* what the user types into the two duration fields of the form
FormTexts(name) ==
    CASE name = "duration_hours" -> { toString(1) }
      [] name = "duration_minutes" -> { toString(0), toString(30) }

\* handleInputChange on a duration field, TimeEntries.tsx:459-462
handleInputChange ==
    /\ isModalOpen
    /\ \E name \in {"duration_hours", "duration_minutes"} :
       \E value \in FormTexts(name) :
          formData' = [formData EXCEPT ![name] = value]
    /\ UNCHANGED <<store, activeTimer, elapsedTime, isModalOpen,
                   currentTimeEntry, error, entriesHighlights>>
    /\ UNCHANGED <<elsewhere, now, ticks>>

\* closeModal, TimeEntries.tsx:436-439
closeModal ==
    /\ isModalOpen
    /\ isModalOpen' = FALSE
    /\ error' = Null
    /\ UNCHANGED <<store, activeTimer, elapsedTime, currentTimeEntry, formData,
                   entriesHighlights>>
    /\ UNCHANGED <<elsewhere, now, ticks>>

\* the message the form shows instead of submitting, TimeEntries.tsx:515-541
validationError(form) ==
    IF form.task_id = "" THEN Some("Please select a task")
    ELSE IF form.project_id = "" THEN Some("Please select a project")
    ELSE IF form.customer_id = "" THEN Some("Please select a customer")
    ELSE IF ~ IsSet(form.date) THEN Some("Date is required")
    ELSE IF /\ parseIntOrZero(form.duration_hours) = 0
            /\ parseIntOrZero(form.duration_minutes) = 0
    THEN Some("Please enter a duration")
    ELSE Null

\* handleSubmit on the form of an entry under edit, TimeEntries.tsx:512-604;
\* ok is whether the update of the store succeeds
handleSubmit(ok) ==
    /\ isModalOpen
    /\ IsSet(currentTimeEntry)
    /\ LET hours == parseIntOrZero(formData.duration_hours)
           minutes == parseIntOrZero(formData.duration_minutes)
           totalMinutes == (hours * 60) + minutes
           rate == IF formData.rate = EmptyText THEN Null
                   ELSE Some(parseIntOrZero(formData.rate))
           id == Val(currentTimeEntry).id
       IN  IF IsSet(validationError(formData))
           THEN /\ error' = validationError(formData)
                /\ UNCHANGED <<store, activeTimer, elapsedTime, isModalOpen,
                               entriesHighlights>>
           ELSE IF ok
           THEN /\ store' = [store EXCEPT ![id] =
                               [@ EXCEPT !.task_id = formData.task_id,
                                         !.project_id = formData.project_id,
                                         !.customer_id = formData.customer_id,
                                         !.date = formData.date,
                                         !.duration_minutes = Some(totalMinutes),
                                         !.billable = formData.billable,
                                         !.rate = rate]]
                /\ isModalOpen' = FALSE
                /\ error' = Null
                /\ setFetched(store')
           ELSE /\ error' = Some("update failed")
                /\ UNCHANGED <<store, activeTimer, elapsedTime, isModalOpen,
                               entriesHighlights>>
    /\ UNCHANGED <<currentTimeEntry, formData>>
    /\ UNCHANGED <<elsewhere, now, ticks>>

\* the list is loaded, entries are opened in the edit form, their duration
\* fields are edited, and the form is submitted or closed
NextEdit ==
    \/ fetchStoredTimeEntries
    \/ openModal
    \/ handleInputChange
    \/ \E ok \in BOOLEAN : handleSubmit(ok)
    \/ closeModal

SpecEdit == Init /\ [][NextEdit]_vars

\* C29: when the form of an entry with duration_minutes = m, m a
\* non-negative integer, is submitted as openModal filled it and the store
\* accepts updates, the form is accepted and the entry is stored with
\* duration_minutes = m again.
C29_EditRoundTrip ==
    [][(/\ IsSet(currentTimeEntry)
        /\ IsSet(Val(currentTimeEntry).duration_minutes)
        /\ Val(Val(currentTimeEntry).duration_minutes) >= 0
        /\ formData = editForm(Val(currentTimeEntry), now, tz)
        /\ handleSubmit(TRUE))
       => /\ ~ isModalOpen'
          /\ store'[Val(currentTimeEntry).id].duration_minutes
                = Val(currentTimeEntry).duration_minutes]_vars


-----------------------------------------------------------------------------
(* The timer of the TimeEntries page *)

\* ceilMinutes with Math.floor in the place of Math.ceil
ceilMinutesFloored(durationInSeconds) == durationInSeconds \div 60

\* Math.ceil(durationInSeconds / 60), TimeEntries.tsx:628
ceilMinutes(durationInSeconds) == 0 - ((0 - durationInSeconds) \div 60)

\* stopTimer, TimeEntries.tsx:621-647; ok is whether the update of the store
\* succeeds
stopTimer(ok) ==
    IF ~ IsSet(activeTimer)
    THEN UNCHANGED vars
    ELSE LET timer == Val(activeTimer)
             endTime == now
             startTime == IF IsSet(timer.start_time)
                          THEN Val(timer.start_time) ELSE now
             durationInSeconds == differenceInSeconds(endTime, startTime)
             durationInMinutes == ceilMinutes(durationInSeconds)
         IN  IF ok
             THEN /\ store' = [store EXCEPT ![timer.id] =
                                 [@ EXCEPT !.end_time = Some(endTime),
                                           !.duration_minutes =
                                               Some(durationInMinutes),
                                           !.date = Some(format(startTime, tz))]]
                  /\ setFetched(store')
                  /\ UNCHANGED <<isModalOpen, currentTimeEntry, formData, error>>
                  /\ UNCHANGED <<elsewhere, now, ticks>>
             ELSE UNCHANGED vars

\* how many seconds pass between two looks at the page
TimerSteps == { 1, 59, 60, 61, 119, 120, 3600 }

\* the interval of TimeEntries.tsx:103-111 while the wall clock moves on:
\* one second of elapsedTime for every second with an active timer
timerInterval ==
    /\ ticks < MaxTicks
    /\ ticks' = ticks + 1
    /\ \E step \in TimerSteps :
          /\ now' = now + step
          /\ elapsedTime' = IF IsSet(activeTimer) THEN elapsedTime + step
                            ELSE elapsedTime
    /\ UNCHANGED <<store, activeTimer, isModalOpen, currentTimeEntry, formData,
                   error, entriesHighlights>>
    /\ UNCHANGED elsewhere

\* the list is loaded, time passes, and the timer is stopped
NextTimer ==
    \/ fetchStoredTimeEntries
    \/ timerInterval
    \/ \E ok \in BOOLEAN : stopTimer(ok)

SpecTimer == Init /\ [][NextTimer]_vars

====
